---- MODULE Spec2Model ----
(***************************************************************************)
(* Model of UdisksStorage (src/storage/plugins/UdisksStorage.cxx): the     *)
(* mount/unmount state machine, the condition-variable bridge between      *)
(* worker threads and the control (event loop) thread, the two D-Bus       *)
(* request slots, the two deferred events and the destructor.              *)
(*                                                                         *)
(* Every critical section (std::lock_guard ... end of scope or cond.wait)  *)
(* is one atomic step.  A thread blocked in cond.wait is "mw_wait" or      *)
(* "uw_wait"; a broadcast moves it to "mw_woken"/"uw_woken", from where it *)
(* has to re-acquire the mutex and re-evaluate its loop condition.         *)
(* Handlers of the control thread run one at a time.                       *)
(***************************************************************************)
EXTENDS Integers, FiniteSets, Sequences, TLC

(* ---------------------------- bounds ----------------------------------- *)
NWorkers == 2
MaxCalls == 3

(* ---------------------------- domains ---------------------------------- *)
Ctl == 0
Workers == 1..NWorkers
Procs == Workers \cup {Ctl}

\* objects the service may enumerate; id is the Volume Reference
ObjIds == {"abc", "xyz"}
id == "abc"
PathOf(o) == "/org/freedesktop/UDisks2/block_devices/" \o o
MountPoint == "/media/abc"

NoPath == ""
NoStorage == "null"
NoError == "none"

\* "GetInfo" stands for GetInfo and OpenDirectory: both are MountWait()
\* followed by a call through mounted_storage (lines 98-106)
FacadeOps == {"GetInfo", "MapFS", "MapUTF8"}

ListReplies == [err : BOOLEAN, objs : SUBSET ObjIds]
MountReplies == {"ok", "error", "malformed"}
UnmountReplies == {"ok", "error"}

OkOutcome == "ok"
NoResult == [r |-> "none", e |-> NoError]

VARIABLES
    \* fields of UdisksStorage
    dbus_path,        \* std::string dbus_path ("" until resolved)
    list_request,     \* ODBus::AsyncRequest list_request: TRUE iff pending
    mount_request,    \* ODBus::AsyncRequest mount_request: "none", or the
                      \* request in flight ("Mount" -> OnMountNotify,
                      \* "Unmount" -> OnUnmountNotify)
    want_mount,       \* bool want_mount
    mounted_storage,  \* std::unique_ptr<Storage>: NoStorage or mount point
    mount_error,      \* std::exception_ptr mount_error
    defer_mount,      \* DeferEvent defer_mount: TRUE iff scheduled
    defer_unmount,    \* DeferEvent defer_unmount: TRUE iff scheduled
    \* threads
    pc,               \* position of every thread inside the object
    op,               \* the operation a thread is executing
    result,           \* outcome of the last operation a thread finished
    dtor,             \* "none", "running", "done" (object destroyed)
    aborted,          \* the process died (failed assert / null dereference)
    \* history
    calls,            \* operations started so far
    attempt,          \* number of false -> true flips of want_mount
    att_sched,        \* defer_mount.Schedule() calls in the current attempt
    att_mount_sent,   \* "Mount" requests sent in the current attempt
    list_sent,        \* "GetManagedObjects" requests sent so far
    joined,           \* attempt a thread was waiting on when it blocked
    observed,         \* per attempt: <<waiter, outcome it observed>>
    att_result,       \* per attempt: how the attempt ended
    trigger,          \* per attempt: the thread that flipped want_mount
    expected,         \* per thread: outcome of the unmount that woke it
    lifecycle,        \* Lifecycle State of spec section 4.1
    unmounts_ok,      \* successful unmount replies so far
    cancelled,        \* request cancelled by the destructor, with snapshot
    late_reply        \* a mount/list callback ran after the cancellation

objVars == <<dbus_path, list_request, mount_request, want_mount,
             mounted_storage, mount_error, defer_mount, defer_unmount>>
thrVars == <<pc, op, result, dtor, aborted>>
histVars == <<calls, attempt, att_sched, att_mount_sent, list_sent, joined,
              observed, att_result, trigger, expected, lifecycle,
              unmounts_ok, cancelled, late_reply>>
vars == <<objVars, thrVars, histVars>>

Attempts == 0..MaxCalls

Init ==
    /\ dbus_path = NoPath
    /\ list_request = FALSE
    /\ mount_request = "none"
    /\ want_mount = FALSE
    /\ mounted_storage = NoStorage
    /\ mount_error = NoError
    /\ defer_mount = FALSE
    /\ defer_unmount = FALSE
    /\ pc = [p \in Procs |-> "idle"]
    /\ op = [p \in Procs |-> "none"]
    /\ result = [p \in Procs |-> NoResult]
    /\ dtor = "none"
    /\ aborted = FALSE
    /\ calls = 0
    /\ attempt = 0
    /\ att_sched = 0
    /\ att_mount_sent = 0
    /\ list_sent = 0
    /\ joined = [p \in Procs |-> 0]
    /\ observed = [a \in Attempts |-> {}]
    /\ att_result = [a \in Attempts |-> NoError]
    /\ trigger = [a \in Attempts |-> Ctl]
    /\ expected = [p \in Procs |-> NoError]
    /\ lifecycle = "Idle"
    /\ unmounts_ok = 0
    /\ cancelled = [req |-> "none", err |-> NoError]
    /\ late_reply = FALSE

(* ------------------- pieces of code used by the steps ------------------ *)

\* mutant: MountWait() without the early return of line 164
AlreadyMounted_Never(ms) == FALSE

\* line 164: if (mounted_storage) return;
AlreadyMounted(ms) == ms # NoStorage

\* mutant: every caller of MountWait() schedules defer_mount
MustSchedule_Always(wm) == TRUE

\* line 168: if (!want_mount) { want_mount = true; defer_mount.Schedule(); }
MustSchedule(wm) == ~wm

\* line 173: while (want_mount) cond.wait(mutex);
MountWaitLoop(wm) == wm

\* line 249: while (mounted_storage) cond.wait(mutex);
UnmountWaitLoop(ms) == ms # NoStorage

\* lines 176 and 252: if (mount_error) std::rethrow_exception(mount_error);
Rethrows(err) == err # NoError

\* mutant: DeferredMount() enumerates even when the path is cached
NeedsEnumeration_Always(path) == TRUE

\* line 187: if (dbus_path.empty()) -> enumerate first
NeedsEnumeration(path) == path = NoPath

\* lines 140-143: ParseObjects() stores the path of the object whose id
\* matches; an error reply throws before any object is visited
ParseObjects(reply, path) ==
    IF ~reply.err /\ id \in reply.objs THEN PathOf(id) ELSE path

\* lines 139-148: the reply is an error, or dbus_path is still empty
ListReplyFails(reply, path) == reply.err \/ ParseObjects(reply, path) = NoPath

\* the exceptions the object stores, by the kinds of spec section 7
ResolutionFailure == "ResolutionFailure"
MountFailure == "MountFailure"
UnmountFailure == "UnmountFailure"

\* lines 218-222: CheckThrowError(), then the argument must be a string
MountReplyFails(reply) == reply # "ok"

\* line 282: reply.CheckThrowError()
UnmountReplyFails(reply) == reply # "ok"

\* mutant: the handle survives a failed unmount
StorageAfterUnmount_KeptOnFailure(ms, failed) ==
    IF failed THEN ms ELSE NoStorage

\* lines 286 and 291 (and 274): mounted_storage.reset() on every path
StorageAfterUnmount(ms, failed) == NoStorage

\* mutant: a successful mount reply leaves the stored error in place
ErrorAfterMountReply_Stale(reply) ==
    IF MountReplyFails(reply) THEN MountFailure ELSE mount_error

\* lines 228, 233: mount_error after a mount reply
ErrorAfterMountReply(reply) ==
    IF MountReplyFails(reply) THEN MountFailure ELSE NoError

\* lines 285, 290: mount_error after an unmount reply
ErrorAfterUnmountReply(reply) ==
    IF UnmountReplyFails(reply) THEN UnmountFailure ELSE NoError

\* mutant: the destructor forgets mount_request.Cancel()
CancelMount_Forgotten(mr) == mr

\* lines 78-81: the lambda the destructor runs on the control thread
CancelList(lr) == FALSE
CancelMount(mr) == "none"

\* line 76: if (list_request || mount_request)
DtorMustCancel(lr, mr) == lr \/ mr # "none"

\* mutant: the handlers forget cond.broadcast()
Broadcast_Forgotten(pcs) == pcs

\* cond.broadcast(): every thread blocked in cond.wait becomes runnable
Broadcast(pcs) ==
    [p \in Procs |-> IF pcs[p] = "mw_wait" THEN "mw_woken"
                     ELSE IF pcs[p] = "uw_wait" THEN "uw_woken"
                     ELSE pcs[p]]

\* what the caller of a facade operation sees when MountWait() throws:
\* GetInfo/OpenDirectory propagate (lines 98-106), MapFS returns nullptr
\* (lines 111-115), MapUTF8 builds the fallback URI (lines 304-311)
RaiseResult(o, err) ==
    CASE o = "MapFS" -> [r |-> "nullptr", e |-> NoError]
      [] o = "MapUTF8" -> [r |-> "fallback", e |-> NoError]
      [] o = "Dtor" -> [r |-> "logged", e |-> err]
      [] OTHER -> [r |-> "raised", e |-> err]

Live == ~aborted /\ dtor # "done"

\* the worker threads are interchangeable: worker p makes its first call
\* after worker p - 1 has made one
MayEnter(p) == IF p \in {Ctl, 1} THEN TRUE ELSE op[p - 1] # "none"
CtlFree == Live /\ pc[Ctl] = "idle"

\* an operation of thread p ends with result res; the end of the
\* destructor is the end of the object
Finish(p, o, res) ==
    /\ pc' = [pc EXCEPT ![p] = "idle"]
    /\ result' = [result EXCEPT ![p] = res]
    /\ dtor' = IF o = "Dtor" THEN "done" ELSE dtor

(* ------------------------- worker threads ------------------------------ *)

\* GetInfo / OpenDirectory / MapFS / MapUTF8 up to the first cond.wait or
\* the return of MountWait()
FacadeCall(p, o) ==
    /\ Live /\ dtor = "none" /\ pc[p] = "idle" /\ calls < MaxCalls
    /\ MayEnter(p)
    /\ calls' = calls + 1
    /\ op' = [op EXCEPT ![p] = o]
    /\ result' = [result EXCEPT ![p] = NoResult]
    /\ IF AlreadyMounted(mounted_storage)
       THEN /\ pc' = [pc EXCEPT ![p] = "use"]
            /\ joined' = [joined EXCEPT ![p] = 0]
            /\ UNCHANGED <<want_mount, defer_mount, attempt, att_sched,
                           att_mount_sent, lifecycle, trigger>>
       ELSE /\ pc' = [pc EXCEPT ![p] = "mw_wait"]
            /\ want_mount' = (want_mount \/ MustSchedule(want_mount))
            /\ defer_mount' = (defer_mount \/ MustSchedule(want_mount))
            /\ attempt' = IF want_mount THEN attempt ELSE attempt + 1
            /\ att_sched' = (IF want_mount THEN att_sched ELSE 0)
                            + (IF MustSchedule(want_mount) THEN 1 ELSE 0)
            /\ att_mount_sent' = IF want_mount THEN att_mount_sent ELSE 0
            /\ lifecycle' = IF want_mount THEN lifecycle ELSE "MountPending"
            /\ joined' = [joined EXCEPT ![p] = attempt']
            /\ trigger' = IF want_mount THEN trigger
                          ELSE [trigger EXCEPT ![attempt'] = p]
    /\ UNCHANGED <<dbus_path, list_request, mount_request, mounted_storage,
                   mount_error, defer_unmount, dtor, aborted, list_sent,
                   observed, att_result, unmounts_ok, cancelled, late_reply>>
    /\ expected' = [expected EXCEPT ![p] = NoError]

\* a woken waiter of MountWait() re-acquires the mutex (lines 173-177)
MountWaitWake(p) ==
    /\ Live /\ pc[p] = "mw_woken"
    /\ IF MountWaitLoop(want_mount)
       THEN /\ pc' = [pc EXCEPT ![p] = "mw_wait"]
            /\ UNCHANGED <<result, dtor, observed>>
       ELSE IF Rethrows(mount_error)
       THEN /\ Finish(p, op[p], RaiseResult(op[p], mount_error))
            /\ observed' = [observed EXCEPT ![joined[p]] = @ \cup {<<p, mount_error>>}]
       ELSE /\ pc' = [pc EXCEPT ![p] = "use"]
            /\ observed' = [observed EXCEPT ![joined[p]] = @ \cup {<<p, OkOutcome>>}]
            /\ UNCHANGED <<result, dtor>>
    /\ UNCHANGED <<objVars, op, aborted, calls, attempt, att_sched,
                   att_mount_sent, list_sent, joined, att_result, trigger,
                   expected, lifecycle, unmounts_ok, cancelled, late_reply>>

\* lines 100, 105, 117, 303: mounted_storage->...(), read without the
\* mutex; dereferencing an empty unique_ptr is undefined behaviour
UseDelegate(p) ==
    /\ Live /\ pc[p] = "use"
    /\ pc' = [pc EXCEPT ![p] = "idle"]
    /\ IF mounted_storage # NoStorage
       THEN /\ result' = [result EXCEPT ![p] = [r |-> "delegate", e |-> NoError]]
            /\ aborted' = aborted
       ELSE \E crash \in BOOLEAN :
            /\ result' = [result EXCEPT ![p] =
                             [r |-> IF crash THEN "ub_crash" ELSE "ub_value",
                              e |-> NoError]]
            /\ aborted' = crash
    /\ UNCHANGED <<objVars, op, dtor, calls, attempt, att_sched,
                   att_mount_sent, list_sent, joined, observed, att_result,
                   trigger, expected, lifecycle, unmounts_ok, cancelled,
                   late_reply>>

\* UnmountWait() up to its first cond.wait or its return (lines 241-250)
UnmountWaitEnter(p, o) ==
    /\ IF ~UnmountWaitLoop(mounted_storage)
       THEN /\ Finish(p, o, [r |-> "returned", e |-> NoError])
            /\ UNCHANGED <<defer_unmount, lifecycle>>
       ELSE /\ defer_unmount' = TRUE
            /\ lifecycle' = "UnmountPending"
            /\ pc' = [pc EXCEPT ![p] = "uw_wait"]
            /\ result' = [result EXCEPT ![p] = NoResult]
            /\ UNCHANGED dtor
    /\ UNCHANGED <<dbus_path, list_request, mount_request, want_mount,
                   mounted_storage, mount_error, defer_mount, aborted,
                   attempt, att_sched, att_mount_sent, list_sent, observed,
                   att_result, trigger, unmounts_ok, cancelled, late_reply>>
    /\ expected' = [expected EXCEPT ![p] = NoError]
    /\ joined' = [joined EXCEPT ![p] = 0]

\* EnsureUnmounted() requested by a thread
UnmountCall(p) ==
    /\ Live /\ dtor = "none" /\ pc[p] = "idle" /\ calls < MaxCalls
    /\ MayEnter(p)
    /\ calls' = calls + 1
    /\ op' = [op EXCEPT ![p] = "UnmountWait"]
    /\ UnmountWaitEnter(p, "UnmountWait")

\* a woken waiter of UnmountWait() re-acquires the mutex (lines 249-253)
UnmountWaitWake(p) ==
    /\ Live /\ pc[p] = "uw_woken"
    /\ IF UnmountWaitLoop(mounted_storage)
       THEN /\ pc' = [pc EXCEPT ![p] = "uw_wait"]
            /\ UNCHANGED <<result, dtor>>
       ELSE IF Rethrows(mount_error)
       THEN Finish(p, op[p], RaiseResult(op[p], mount_error))
       ELSE Finish(p, op[p], [r |-> "returned", e |-> NoError])
    /\ UNCHANGED <<objVars, op, aborted, calls, attempt, att_sched,
                   att_mount_sent, list_sent, joined, observed, att_result,
                   trigger, expected, lifecycle, unmounts_ok, cancelled,
                   late_reply>>

(* ------------------------- control thread ------------------------------ *)

\* ODBus::AsyncRequest::Send() on a slot that still has a pending call:
\* assert(!pending) fails and the process stops
SendOnBusySlot(lr) ==
    /\ aborted' = TRUE
    /\ list_request' = lr
    /\ UNCHANGED <<mount_request, mount_error, want_mount, pc,
                   att_mount_sent, list_sent, att_result, lifecycle>>

\* the catch blocks of OnListReply (148-154), DeferredMount (207-212) and
\* OnMountNotify (231-236): record the error, end the attempt, wake all
FailAttempt(kind) ==
    /\ mount_error' = kind
    /\ want_mount' = FALSE
    /\ pc' = Broadcast(pc)
    /\ att_result' = [att_result EXCEPT ![attempt] = mount_error']
    /\ lifecycle' = "Idle"

\* DeferredMount() (lines 180-212) with dbus_path = path and the list slot
\* in state lr; sendok = FALSE when GetConnection() or Send() throws
DeferredMount(path, lr, sendok) ==
    IF ~sendok
    THEN /\ FailAttempt(IF NeedsEnumeration(path) THEN ResolutionFailure
                        ELSE MountFailure)
         /\ list_request' = lr
         /\ UNCHANGED <<mount_request, aborted, att_mount_sent, list_sent>>
    ELSE IF NeedsEnumeration(path)
    THEN IF lr
         THEN SendOnBusySlot(lr)
         ELSE /\ list_request' = TRUE
              /\ list_sent' = list_sent + 1
              /\ UNCHANGED <<mount_request, mount_error, want_mount, pc,
                             aborted, att_mount_sent, att_result, lifecycle>>
    ELSE IF mount_request # "none"
         THEN SendOnBusySlot(lr)
         ELSE /\ mount_request' = "Mount"
              /\ att_mount_sent' = att_mount_sent + 1
              /\ list_request' = lr
              /\ UNCHANGED <<mount_error, want_mount, pc, aborted, list_sent,
                             att_result, lifecycle>>

\* the event loop runs the scheduled defer_mount
RunDeferredMount(sendok) ==
    /\ CtlFree /\ defer_mount
    /\ defer_mount' = FALSE
    /\ DeferredMount(dbus_path, list_request, sendok)
    /\ UNCHANGED <<dbus_path, mounted_storage, defer_unmount, op, result,
                   dtor, calls, attempt, att_sched, joined, observed,
                   trigger, expected, unmounts_ok, cancelled, late_reply>>

\* OnListReply() (lines 134-157): the reply of GetManagedObjects
OnListReply(reply, sendok) ==
    /\ CtlFree /\ list_request
    /\ late_reply' = (late_reply \/ cancelled.req \in {"list", "mount"})
    /\ dbus_path' = ParseObjects(reply, dbus_path)
    /\ IF ListReplyFails(reply, dbus_path)
       THEN /\ FailAttempt(ResolutionFailure)
            /\ list_request' = FALSE
            /\ UNCHANGED <<mount_request, aborted, att_mount_sent, list_sent>>
       ELSE DeferredMount(dbus_path', FALSE, sendok)
    /\ UNCHANGED <<mounted_storage, defer_mount, defer_unmount, op, result,
                   dtor, calls, attempt, att_sched, joined, observed,
                   trigger, expected, unmounts_ok, cancelled>>

\* OnMountNotify() (lines 214-236): the reply of Mount
OnMountNotify(reply) ==
    /\ CtlFree /\ mount_request = "Mount"
    /\ late_reply' = (late_reply \/ cancelled.req \in {"list", "mount"})
    /\ mount_request' = "none"
    /\ mounted_storage' = IF MountReplyFails(reply) THEN mounted_storage
                          ELSE MountPoint
    /\ mount_error' = ErrorAfterMountReply(reply)
    /\ want_mount' = FALSE
    /\ pc' = Broadcast(pc)
    /\ att_result' = [att_result EXCEPT ![attempt] =
                         IF MountReplyFails(reply) THEN mount_error'
                         ELSE OkOutcome]
    /\ lifecycle' = IF MountReplyFails(reply) THEN "Idle" ELSE "Mounted"
    /\ UNCHANGED <<dbus_path, list_request, defer_mount, defer_unmount, op,
                   result, dtor, aborted, calls, attempt, att_sched,
                   att_mount_sent, list_sent, joined, observed, trigger,
                   expected, unmounts_ok, cancelled>>

\* history: the threads blocked in UnmountWait() when an unmount ends are
\* the ones this unmount's outcome is delivered to
UnmountOutcome(err) ==
    [p \in Procs |-> IF pc[p] = "uw_wait"
                     THEN (IF err = NoError THEN OkOutcome ELSE err)
                     ELSE expected[p]]

\* history: the end of an unmount makes the state Idle; when it ends while
\* a newer mount attempt is pending (want_mount, which the unmount paths
\* leave alone) the state stays MountPending
LifecycleAfterUnmount == IF want_mount THEN lifecycle ELSE "Idle"

\* the event loop runs the scheduled defer_unmount: DeferredUnmount()
\* (lines 256-276)
RunDeferredUnmount(sendok) ==
    /\ CtlFree /\ defer_unmount
    /\ defer_unmount' = FALSE
    /\ IF ~sendok
       THEN /\ mount_error' = UnmountFailure
            /\ mounted_storage' = StorageAfterUnmount(mounted_storage, TRUE)
            /\ pc' = Broadcast(pc)
            /\ lifecycle' = LifecycleAfterUnmount
            /\ expected' = UnmountOutcome(mount_error')
            /\ UNCHANGED <<mount_request, aborted>>
       ELSE IF mount_request # "none"
       THEN /\ aborted' = TRUE
            /\ UNCHANGED <<mount_request, mount_error, mounted_storage, pc,
                           lifecycle, expected>>
       ELSE /\ mount_request' = "Unmount"
            /\ UNCHANGED <<mount_error, mounted_storage, pc, aborted,
                           lifecycle, expected>>
    /\ UNCHANGED <<dbus_path, list_request, want_mount, defer_mount, op,
                   result, dtor, calls, attempt, att_sched, att_mount_sent,
                   list_sent, joined, observed, att_result, trigger,
                   unmounts_ok, cancelled, late_reply>>

\* OnUnmountNotify() (lines 278-293): the reply of Unmount
OnUnmountNotify(reply) ==
    /\ CtlFree /\ mount_request = "Unmount"
    /\ mount_request' = "none"
    /\ mount_error' = ErrorAfterUnmountReply(reply)
    /\ mounted_storage' = StorageAfterUnmount(mounted_storage,
                                              UnmountReplyFails(reply))
    /\ pc' = Broadcast(pc)
    /\ lifecycle' = LifecycleAfterUnmount
    /\ unmounts_ok' = IF UnmountReplyFails(reply) THEN unmounts_ok
                      ELSE unmounts_ok + 1
    /\ expected' = UnmountOutcome(mount_error')
    /\ UNCHANGED <<dbus_path, list_request, want_mount, defer_mount,
                   defer_unmount, op, result, dtor, aborted, calls, attempt,
                   att_sched, att_mount_sent, list_sent, joined, observed,
                   att_result, trigger, cancelled, late_reply>>

(* ---------------------------- destructor ------------------------------- *)

\* lines 78-81, run on the control thread
CancelRequests ==
    /\ list_request' = (IF list_request THEN CancelList(list_request)
                        ELSE list_request)
    /\ mount_request' = (IF mount_request # "none"
                         THEN CancelMount(mount_request) ELSE mount_request)
    /\ cancelled' = IF list_request THEN [req |-> "list", err |-> mount_error]
                    ELSE IF mount_request = "Mount"
                    THEN [req |-> "mount", err |-> mount_error]
                    ELSE IF mount_request = "Unmount"
                    THEN [req |-> "unmount", err |-> mount_error]
                    ELSE cancelled

\* ~UdisksStorage() up to BlockingCall (lines 75-82); on the control
\* thread BlockingCall runs the lambda inline
DtorStart(p) ==
    /\ Live /\ dtor = "none" /\ pc[p] = "idle" /\ calls < MaxCalls
    /\ MayEnter(p)
    /\ calls' = calls + 1
    /\ op' = [op EXCEPT ![p] = "Dtor"]
    /\ result' = [result EXCEPT ![p] = NoResult]
    /\ dtor' = "running"
    /\ IF DtorMustCancel(list_request, mount_request)
       THEN IF p = Ctl
            THEN /\ CancelRequests
                 /\ pc' = [pc EXCEPT ![p] = "dtor_unmount"]
            ELSE /\ pc' = [pc EXCEPT ![p] = "dtor_blocking"]
                 /\ UNCHANGED <<list_request, mount_request, cancelled>>
       ELSE /\ pc' = [pc EXCEPT ![p] = "dtor_unmount"]
            /\ UNCHANGED <<list_request, mount_request, cancelled>>
    /\ UNCHANGED <<dbus_path, want_mount, mounted_storage, mount_error,
                   defer_mount, defer_unmount, aborted, attempt, att_sched,
                   att_mount_sent, list_sent, joined, observed, att_result,
                   trigger, expected, lifecycle, unmounts_ok, late_reply>>

\* the control thread runs the lambda of BlockingCall for thread p
RunBlockingCall(p) ==
    /\ CtlFree /\ pc[p] = "dtor_blocking"
    /\ CancelRequests
    /\ pc' = [pc EXCEPT ![p] = "dtor_unmount"]
    /\ UNCHANGED <<dbus_path, want_mount, mounted_storage, mount_error,
                   defer_mount, defer_unmount, op, result, dtor, aborted,
                   calls, attempt, att_sched, att_mount_sent, list_sent,
                   joined, observed, att_result, trigger, expected,
                   lifecycle, unmounts_ok, late_reply>>

\* lines 84-90: try { UnmountWait(); } catch (...) { FormatError(...); }
DtorUnmountWait(p) ==
    /\ Live /\ pc[p] = "dtor_unmount"
    /\ UnmountWaitEnter(p, "Dtor")
    /\ UNCHANGED <<op, calls>>

(* --------------------------- specification ----------------------------- *)

Next ==
    \/ \E p \in Workers, o \in FacadeOps : FacadeCall(p, o)
    \/ \E p \in Workers : MountWaitWake(p)
    \/ \E p \in Workers : UseDelegate(p)
    \/ \E p \in Workers : UnmountCall(p)
    \/ \E p \in Procs : UnmountWaitWake(p)
    \/ \E sendok \in BOOLEAN : RunDeferredMount(sendok)
    \/ \E reply \in ListReplies, sendok \in BOOLEAN : OnListReply(reply, sendok)
    \/ \E reply \in MountReplies : OnMountNotify(reply)
    \/ \E sendok \in BOOLEAN : RunDeferredUnmount(sendok)
    \/ \E reply \in UnmountReplies : OnUnmountNotify(reply)
    \/ \E p \in Procs : DtorStart(p)
    \/ \E p \in Workers : RunBlockingCall(p)
    \/ \E p \in Procs : DtorUnmountWait(p)

Spec == Init /\ [][Next]_vars

\* the service answers every request that is in flight, the event loop
\* runs every scheduled deferred event and every BlockingCall, and every
\* runnable thread gets the mutex; no thread has to start a new call
Fairness ==
    /\ WF_vars(\E sendok \in BOOLEAN : RunDeferredMount(sendok))
    /\ WF_vars(\E reply \in ListReplies, sendok \in BOOLEAN :
                   OnListReply(reply, sendok))
    /\ WF_vars(\E reply \in MountReplies : OnMountNotify(reply))
    /\ WF_vars(\E sendok \in BOOLEAN : RunDeferredUnmount(sendok))
    /\ WF_vars(\E reply \in UnmountReplies : OnUnmountNotify(reply))
    /\ \A p \in Procs :
          /\ WF_vars(p \in Workers /\ MountWaitWake(p))
          /\ WF_vars(p \in Workers /\ UseDelegate(p))
          /\ WF_vars(UnmountWaitWake(p))
          /\ WF_vars(p \in Workers /\ RunBlockingCall(p))
          /\ WF_vars(DtorUnmountWait(p))

FairSpec == Spec /\ Fairness

(* ------------------------------ claims --------------------------------- *)

\* C1: concurrent MountWait() calls on an idle volume schedule defer_mount
\* exactly once per attempt (only the caller that flips want_mount calls
\* Schedule()), and at most one Mount request is sent for the attempt:
\* exactly one whenever a Mount request is in flight.
C1_ScheduledOnce ==
    /\ want_mount => att_sched = 1
    /\ att_sched <= 1
    /\ att_mount_sent <= 1
    /\ mount_request = "Mount" => att_mount_sent = 1
    /\ \A p \in Workers : pc[p] \in {"mw_wait", "mw_woken"} =>
                              joined[p] \in 1..attempt

C1_Witness ==
    /\ \A p \in Workers : pc[p] = "mw_wait" /\ joined[p] = attempt
    /\ mount_request = "Mount"
    /\ att_sched = 1 /\ att_mount_sent = 1

\* C2 (as claimed): all threads that waited on the same mount attempt
\* observe the same outcome: all return normally or all raise the same
\* error.
C2_SameOutcome ==
    \A a \in Attempts : Cardinality({x[2] : x \in observed[a]}) <= 1

\* C3 (as claimed): mounted_storage is present iff the Lifecycle State is
\* Mounted.
C3_HandleIffMounted ==
    (mounted_storage # NoStorage) <=> (lifecycle = "Mounted")

\* C3 (amended): mounted_storage is present iff the Lifecycle State is
\* Mounted or UnmountPending; it is absent in Idle and in MountPending.
C3_HandleIffMountedOrUnmounting ==
    (mounted_storage # NoStorage) <=>
        (lifecycle \in {"Mounted", "UnmountPending"})

C3_Witness ==
    /\ lifecycle = "UnmountPending"
    /\ mount_request = "Unmount"
    /\ mounted_storage = MountPoint

\* C4: a storage operation on a mounted volume returns from MountWait() at
\* once and sends no request, schedules nothing and starts no attempt; no
\* step at all sends GetManagedObjects or Mount or schedules defer_mount
\* while the volume is mounted; and an attempt only starts when none is
\* pending and the volume is not mounted.
C4_NoRequestWhileMounted ==
    [][ /\ \A p \in Workers :
             (mounted_storage # NoStorage /\ pc[p] = "idle"
              /\ pc'[p] # "idle" /\ op'[p] \in FacadeOps)
                => /\ pc'[p] = "use"
                   /\ UNCHANGED <<list_request, mount_request, defer_mount,
                                  want_mount, attempt, att_sched>>
        /\ mounted_storage # NoStorage
           => /\ list_sent' = list_sent
              /\ att_mount_sent' = att_mount_sent
              /\ defer_mount' => defer_mount
        /\ attempt' # attempt
           => /\ ~want_mount /\ mounted_storage = NoStorage
              /\ lifecycle \notin {"MountPending", "Mounted"}
      ]_vars

C4_Witness ==
    \E p, q \in Workers :
        /\ p # q
        /\ pc[p] = "use" /\ joined[p] = 0
        /\ lifecycle = "Mounted"
        /\ result[q].r = "delegate"

\* C5: once dbus_path is set it never changes and no GetManagedObjects
\* request is sent any more; an unmount reply leaves no handle, and a
\* DeferredMount() that runs with the cached path sends Mount directly.
C5_PathCached ==
    [][ /\ dbus_path # NoPath
           => /\ dbus_path' = dbus_path
              /\ list_sent' = list_sent
              /\ ~list_request'
              /\ (defer_mount /\ ~defer_mount' /\ want_mount' /\ ~aborted')
                 => (mount_request' = "Mount" /\ att_mount_sent' = 1)
        /\ unmounts_ok' # unmounts_ok => mounted_storage' = NoStorage
      ]_vars

C5_Witness ==
    /\ unmounts_ok >= 1
    /\ want_mount /\ mount_request = "Mount"
    /\ list_sent = 1
    /\ dbus_path = PathOf(id)

\* C6 (as claimed): MapFS never raises: it ends either with nullptr (the
\* mount failed) or with the result of a delegate that is present when
\* it is used.
C6_MapFSNeverRaises ==
    \A p \in Workers :
        (op[p] = "MapFS" /\ result[p] # NoResult)
            => result[p].r \in {"nullptr", "delegate"}

\* C7: once the destructor has cancelled a pending GetManagedObjects or
\* Mount request, OnListReply/OnMountNotify never run again, and
\* mount_error, want_mount and mounted_storage keep the values they had
\* at the cancellation.
C7_CancelledNeverReplies ==
    cancelled.req \in {"list", "mount"}
        => /\ ~late_reply
           /\ ~list_request /\ mount_request # "Mount"
           /\ want_mount
           /\ mount_error = cancelled.err
           /\ mounted_storage = NoStorage

C7_Witness ==
    /\ cancelled.req = "mount"
    /\ dtor = "done"
    /\ \E p \in Workers : pc[p] = "mw_wait"

\* the step ends the current attempt with error kind k
EndsAttemptWith(k) ==
    att_result[attempt] # k /\ att_result'[attempt] = k /\ attempt' = attempt

\* every waiter of an attempt that ended with kind k has raised k
WaitersRaise(k) ==
    \A a \in Attempts :
        att_result[a] = k => \A x \in observed[a] : x[2] = k

\* the thread that triggered an attempt that ended with kind k has raised k
TriggerRaises(k) ==
    \A a \in Attempts :
        att_result[a] = k
            => \A x \in observed[a] : x[1] = trigger[a] => x[2] = k

\* C8 (as claimed): after a failed or unmatched enumeration the state is
\* Idle with mount_error set, nobody is left blocked, no Mount request was
\* sent, and every thread that waited on that attempt raises that error.
C8_ResolutionFailure ==
    [][ /\ EndsAttemptWith(ResolutionFailure)
           => /\ ~want_mount' /\ mounted_storage' = NoStorage
              /\ lifecycle' = "Idle"
              /\ mount_error' = ResolutionFailure
              /\ mount_request' # "Mount" /\ att_mount_sent' = 0
              /\ \A p \in Procs : pc'[p] # "mw_wait"
        /\ WaitersRaise(ResolutionFailure)'
      ]_vars

\* C9 (as claimed): after a failed, malformed or unsendable Mount the
\* state is Idle with mount_error set and no handle, nobody is left
\* blocked, and the operation that triggered the attempt fails with that
\* error.
C9_MountFailure ==
    [][ /\ EndsAttemptWith(MountFailure)
           => /\ ~want_mount' /\ mounted_storage' = NoStorage
              /\ lifecycle' = "Idle"
              /\ mount_error' = MountFailure
              /\ \A p \in Procs : pc'[p] # "mw_wait"
        /\ TriggerRaises(MountFailure)'
      ]_vars

\* the step is the end of an unmount: its reply, or a Send that throws
UnmountEnds ==
    \/ mount_request = "Unmount" /\ mount_request' = "none"
       /\ cancelled' = cancelled
    \/ defer_unmount /\ ~defer_unmount' /\ mount_request' = mount_request
       /\ ~aborted'

\* a thread that was blocked in UnmountWait() when an unmount ended has
\* returned what that unmount produced
UnmountWaitersSeeOutcome ==
    \A p \in Procs :
        (op[p] \in {"UnmountWait", "Dtor"} /\ result[p] # NoResult
         /\ expected[p] # NoError)
            => IF expected[p] = OkOutcome
               THEN result[p].r = "returned"
               ELSE result[p].r \in {"raised", "logged"}
                    /\ result[p].e = expected[p]

C12_TeardownCompletes ==
    (dtor = "running")
        ~> (aborted \/ (/\ dtor = "done"
                        /\ mounted_storage = NoStorage
                        /\ \A p \in Procs :
                              op[p] = "Dtor" => result[p].r \in
                                                   {"returned", "logged"}))

\* the step stores an error: a failed resolution, mount or unmount
StoresError == mount_error' # NoError /\ mount_error' # mount_error

\* the step is the successful end of the current attempt
AttemptSucceeds ==
    att_result[attempt] # OkOutcome /\ att_result'[attempt] = OkOutcome

\* the call that started a new attempt after a failed one, and whose
\* attempt succeeded, has returned successfully
RetryReturns ==
    \A a \in Attempts \ {0, 1} :
        (att_result[a - 1] \in {ResolutionFailure, MountFailure}
         /\ att_result[a] = OkOutcome)
            => \A x \in observed[a] : x[1] = trigger[a] => x[2] = OkOutcome

\* C13 (as claimed): a failure does not pin the object.  Whenever an error
\* is stored, or an unmount ends, the state is Idle (no handle, no attempt
\* pending); a MountWait() that finds no handle and no pending attempt
\* starts a fresh attempt and blocks, whatever mount_error holds; a
\* successful mount reply clears mount_error and makes the state Mounted;
\* and the call that started the attempt returns successfully.
C13_FailureDoesNotPin ==
    [][ /\ (StoresError \/ UnmountEnds)
           => /\ lifecycle' = "Idle"
              /\ mounted_storage' = NoStorage
              /\ ~want_mount'
        /\ \A p \in Workers :
             (/\ pc[p] = "idle" /\ pc'[p] # "idle" /\ op'[p] \in FacadeOps
              /\ mounted_storage = NoStorage /\ ~want_mount)
                => /\ pc'[p] = "mw_wait"
                   /\ attempt' = attempt + 1 /\ joined'[p] = attempt'
                   /\ want_mount' /\ defer_mount'
                   /\ lifecycle' = "MountPending"
        /\ AttemptSucceeds
           => /\ mount_error' = NoError
              /\ mounted_storage' # NoStorage
              /\ lifecycle' = "Mounted"
        /\ RetryReturns'
      ]_vars

\* the Lifecycle State the three fields encode
EncodedLifecycle ==
    IF want_mount THEN {"MountPending"}
    ELSE IF mounted_storage # NoStorage THEN {"Mounted", "UnmountPending"}
    ELSE {"Idle"}

\* want_mount is never set while the handle is present, and the Lifecycle
\* State is the one the fields encode
OneLifecycleState ==
    /\ ~(want_mount /\ mounted_storage # NoStorage)
    /\ lifecycle \in EncodedLifecycle

\* C14: exactly one Lifecycle State holds in every reachable state:
\* want_mount is never true while mounted_storage is present, so
\* MountPending never overlaps Mounted or UnmountPending.  Every change of
\* want_mount, mounted_storage or mount_error is one critical section: it
\* is made by a thread entering MountWait() (which only sets want_mount) or
\* by a handler of the control thread, never by a thread that returns from
\* cond.wait and never while the control thread is inside another call.
C14_OneLifecycleState ==
    /\ OneLifecycleState
    /\ [][ /\ OneLifecycleState'
           /\ <<want_mount, mounted_storage, mount_error>>' #
                  <<want_mount, mounted_storage, mount_error>>
              => \/ \E p \in Workers :
                       /\ pc[p] = "idle" /\ pc'[p] = "mw_wait"
                       /\ ~want_mount /\ want_mount'
                       /\ UNCHANGED <<mounted_storage, mount_error>>
                 \/ /\ pc[Ctl] = "idle" /\ pc'[Ctl] = "idle"
                    /\ \A p \in Procs :
                          pc'[p] # pc[p]
                              => /\ pc[p] \in {"mw_wait", "uw_wait"}
                                 /\ pc'[p] \in {"mw_woken", "uw_woken"}
         ]_vars

\* a new attempt is pending right after a mount / unmount cycle
C14_Witness ==
    /\ attempt >= 2
    /\ att_result[attempt - 1] = OkOutcome
    /\ unmounts_ok >= 1
    /\ want_mount /\ defer_mount
    /\ mounted_storage = NoStorage
    /\ lifecycle = "MountPending"

\* C15 (as claimed): nothing the control thread executes blocks on the
\* condition variable: the deferred and reply callbacks return, and a
\* destructor run on the control thread never enters cond.wait (nor waits
\* for a BlockingCall to be run by itself).
C15_ControlThreadNeverBlocks ==
    pc[Ctl] \notin {"mw_wait", "mw_woken", "uw_wait", "uw_woken",
                    "dtor_blocking"}

\* the positions of a thread inside MountWait() or UnmountWait()
Waiting == {"mw_wait", "mw_woken", "uw_wait", "uw_woken"}

C17_HandleAtReturn ==
    [][ \A p \in Workers :
          (pc[p] # "use" /\ pc'[p] = "use") => mounted_storage' # NoStorage
      ]_vars

\* what can still end the pending attempt: the scheduled DeferredMount(),
\* the GetManagedObjects request, the Mount request
Outstanding ==
    (IF defer_mount THEN {"defer_mount"} ELSE {})
        \cup (IF list_request THEN {"list_request"} ELSE {})
        \cup (IF mount_request = "Mount" THEN {"mount_request"} ELSE {})

\* C18: while want_mount is true, the destructor has cancelled nothing and
\* the process is alive, exactly one of the scheduled DeferredMount(), the
\* enumeration request and the Mount request is outstanding; a step that
\* leaves none of them outstanding clears want_mount, and every step that
\* clears want_mount wakes all threads blocked in cond.wait.
C18_NoStrandedWaiter ==
    /\ (want_mount /\ cancelled.req = "none" /\ ~aborted)
           => Cardinality(Outstanding) = 1
    /\ [][ /\ (want_mount' /\ cancelled'.req = "none" /\ ~aborted')
               => Cardinality(Outstanding') = 1
           /\ (/\ want_mount /\ Outstanding' = {}
               /\ cancelled'.req = "none" /\ ~aborted')
               => ~want_mount'
           /\ (want_mount /\ ~want_mount')
               => \A p \in Procs :
                     /\ pc'[p] \notin {"mw_wait", "uw_wait"}
                     /\ pc[p] = "mw_wait" => pc'[p] = "mw_woken"
         ]_vars

\* a second attempt, after a failed one, waits for its enumeration reply
C18_Witness ==
    /\ attempt >= 2
    /\ att_result[attempt - 1] = ResolutionFailure
    /\ want_mount /\ Outstanding = {"list_request"}
    /\ cancelled.req = "none"
    /\ \A p \in Workers : pc[p] = "mw_wait"

\* C19: whenever mounted_storage is present mount_error is empty: a step
\* that stores an error leaves no handle, and the step that creates the
\* handle clears mount_error.
C19_HandleImpliesNoError ==
    mounted_storage # NoStorage => mount_error = NoError

\* the handle has just been created by an attempt that followed a failed
\* one, and is being unmounted
C19_Witness ==
    /\ attempt >= 2
    /\ att_result[attempt - 1] = MountFailure
    /\ att_result[attempt] = OkOutcome
    /\ mounted_storage = MountPoint
    /\ defer_unmount
    /\ \E p \in Workers : pc[p] = "uw_wait"

====
